---- MODULE Spec2Model ----
(***************************************************************************)
(* treetextconf: the iterative parser (Parser.iterParse) of the line       *)
(* oriented tree configuration format, with its line source (nextLine over *)
(* bufio.Reader.ReadLine), its limits and its error reporting.             *)
(*                                                                         *)
(* Text is a sequence of one-character strings.  Positions in a line are   *)
(* 0-based as in the Go source; Slice(s, lo, hi) is s[lo:hi].              *)
(***************************************************************************)
EXTENDS Integers, Sequences, FiniteSets, TLC

VARIABLES
    options,      \* the option functions handed to NewParser
    content,      \* what the reader delivers: the results of ReadLine, in order
    pos,          \* number of ReadLine results consumed so far
    line,         \* p.line
    lineno,       \* p.lineno
    size,         \* p.size
    heightLimit,  \* p.heightLimit
    sizeLimit,    \* p.sizeLimit
    nodes,        \* the Config objects allocated so far: [name, value]
    stack,        \* iterParse's stack of node ids
    c,            \* iterParse's current node
    err,          \* iterParse's err
    ret,          \* the error returned to the caller
    pc,           \* position in the program
    lines,        \* history: the logical lines nextLine has returned
    created,      \* history: created[n] is the line number that made node n
    first,        \* history: tree and result of the iterative parse
    ioFailed      \* history: ReadLine has failed with another error than io.EOF

vars == <<options, content, pos, line, lineno, size, heightLimit,
          sizeLimit, nodes, stack, c, err, ret, pc, lines, created,
          first, ioFailed>>

----------------------------------------------------------------------------
(* Bounds of the model *)

\* longest line of the one-line inputs
MaxLen == 4
\* most lines of the multi-line inputs
MaxLines == 4
\* size of the reader's buffer (bufio's is 4096): a line this long or longer
\* is delivered in pieces, all but the last flagged as a prefix
BufSize == 4

\* longest input, in lines, given to both variants of the parser
MaxRecLines == 3

----------------------------------------------------------------------------
(* Text *)

Alphabet == {"a", " ", ":", "'", "#"}

At(s, i) == s[i + 1]

Slice(s, lo, hi) == SubSeq(s, lo + 1, hi)

\* Go panics on s[lo:hi] unless 0 <= lo <= hi <= len(s)
SliceOK(s, lo, hi) == 0 <= lo /\ lo <= hi /\ hi <= Len(s)

----------------------------------------------------------------------------
(* Errors *)

Unset == 0 - 1

NoErr == [kind |-> "nil", context |-> "", limit |-> Unset, line |-> 0, col |-> 0]

EOFErr == [kind |-> "EOF", context |-> "", limit |-> Unset, line |-> 0, col |-> 0]

IOErr == [kind |-> "io", context |-> "", limit |-> Unset, line |-> 0, col |-> 0]

ParserOptFuncError(msg) ==
    [kind |-> "opt", context |-> msg, limit |-> Unset, line |-> 0, col |-> 0]

ConfigError(ctx, lim, ln) ==
    [kind |-> "config", context |-> ctx, limit |-> lim, line |-> ln, col |-> 0]

HeightMsg == "tree height exceeds limit"
SizeMsg == "size of config exceeds limit"
UnterminatedMsg == "Unterminated compound group, not enough ':'"
TooManyMsg == "Too many compound terminators ':'"

----------------------------------------------------------------------------
(* Options and limits *)

HeightLimit(limit) == [opt |-> "height", limit |-> limit]

SizeLimit(limit) == [opt |-> "size", limit |-> limit]

\* variant: a limit of 0 is accepted
ApplyOptionAllowsZero(o, h) ==
    IF o.limit >= 0
    THEN [p |-> IF o.opt = "height" THEN [h EXCEPT !.heightLimit = o.limit]
                                    ELSE [h EXCEPT !.sizeLimit = o.limit],
          err |-> NoErr]
    ELSE [p |-> h,
          err |-> IF o.opt = "height"
                  THEN ParserOptFuncError("Height limit must be greater than 0.")
                  ELSE ParserOptFuncError("Size limit must be greater than 0.")]

\* the parser under construction is the pair of its two limits
ApplyOption(o, h) ==
    IF o.limit > 0
    THEN [p |-> IF o.opt = "height" THEN [h EXCEPT !.heightLimit = o.limit]
                                    ELSE [h EXCEPT !.sizeLimit = o.limit],
          err |-> NoErr]
    ELSE [p |-> h,
          err |-> IF o.opt = "height"
                  THEN ParserOptFuncError("Height limit must be greater than 0.")
                  ELSE ParserOptFuncError("Size limit must be greater than 0.")]

RECURSIVE ApplyOptions(_, _)
ApplyOptions(opts, h) ==
    IF opts = <<>> THEN [p |-> h, err |-> NoErr]
    ELSE LET r == ApplyOption(Head(opts), h)
         IN IF r.err # NoErr THEN r ELSE ApplyOptions(Tail(opts), r.p)

\* variant: the limit itself is already a violation
checkHeightAtLimit(height, hl, ln) ==
    IF hl # Unset /\ height >= hl THEN ConfigError(HeightMsg, hl, ln) ELSE NoErr

checkHeight(height, hl, ln) ==
    IF hl # Unset /\ height > hl THEN ConfigError(HeightMsg, hl, ln) ELSE NoErr

\* variant: reaching the limit exactly is still accepted
checkSizeAbove(sz, sl, ln) ==
    IF sl # Unset /\ sz > sl THEN ConfigError(SizeMsg, sl, ln) ELSE NoErr

checkSize(sz, sl, ln) ==
    IF sl # Unset /\ sz >= sl THEN ConfigError(SizeMsg, sl, ln) ELSE NoErr

----------------------------------------------------------------------------
(* The line source *)

\* bufio.Reader.ReadLine on one newline-terminated line: full buffers flagged
\* as prefixes, then the rest (empty when the line fills the buffers exactly)
RECURSIVE Fragments(_)
Fragments(l) ==
    IF Len(l) >= BufSize
    THEN <<[bytes |-> SubSeq(l, 1, BufSize), prefix |-> TRUE]>>
         \o Fragments(SubSeq(l, BufSize + 1, Len(l)))
    ELSE <<[bytes |-> l, prefix |-> FALSE]>>

RECURSIVE Reads(_)
Reads(ls) == IF ls = <<>> THEN <<>> ELSE Fragments(Head(ls)) \o Reads(Tail(ls))

FinalErr(f) == IF f = "EOF" THEN EOFErr ELSE IOErr

\* the loop of nextLine that merges the pieces of a line
RECURSIVE Continue(_, _, _, _, _, _, _)
Continue(rd, f, p, ln, sz, sl, lno) ==
    IF p >= Len(rd)
    THEN IF f # "EOF"
         THEN [line |-> ln, pos |-> p, size |-> sz, lineno |-> lno, err |-> IOErr]
         ELSE LET e == checkSize(sz, sl, lno)
              IN IF e # NoErr
                 THEN [line |-> ln, pos |-> p, size |-> sz, lineno |-> lno, err |-> e]
                 ELSE [line |-> ln, pos |-> p, size |-> sz, lineno |-> lno + 1,
                       err |-> NoErr]
    ELSE LET r == rd[p + 1]
             sz2 == sz + Len(r.bytes)
             e == checkSize(sz2, sl, lno)
         IN IF e # NoErr
            THEN [line |-> ln, pos |-> p + 1, size |-> sz2, lineno |-> lno, err |-> e]
            ELSE IF r.prefix
                 THEN Continue(rd, f, p + 1, ln \o r.bytes, sz2, sl, lno)
                 ELSE [line |-> ln \o r.bytes, pos |-> p + 1, size |-> sz2,
                       lineno |-> lno + 1, err |-> NoErr]

nextLine(rd, f, p, sz, sl, lno) ==
    IF p >= Len(rd)
    THEN [line |-> <<>>, pos |-> p, size |-> sz, lineno |-> lno, err |-> FinalErr(f)]
    ELSE LET r == rd[p + 1]
             sz2 == sz + Len(r.bytes)
             e == checkSize(sz2, sl, lno)
         IN IF e # NoErr
            THEN [line |-> r.bytes, pos |-> p + 1, size |-> sz2, lineno |-> lno,
                  err |-> e]
            ELSE IF r.prefix
                 THEN Continue(rd, f, p + 1, r.bytes, sz2, sl, lno)
                 ELSE [line |-> r.bytes, pos |-> p + 1, size |-> sz2,
                       lineno |-> lno + 1, err |-> NoErr]

----------------------------------------------------------------------------
(* Classification of a line *)

RECURSIVE SkipBlank(_, _)
SkipBlank(l, i) ==
    IF i < Len(l) /\ (At(l, i) = " " \/ At(l, i) = "\t")
    THEN SkipBlank(l, i + 1) ELSE i

\* variant: blanks after the content-start marker are skipped too
ContentStartTrims(l, i) ==
    IF At(l, i) = "'" THEN [start |-> SkipBlank(l, i + 1), found |-> TRUE]
                      ELSE [start |-> i, found |-> FALSE]

\* where the content starts, and whether the content-start marker was found
ContentStart(l, i) ==
    IF At(l, i) = "'" THEN [start |-> i + 1, found |-> TRUE]
                      ELSE [start |-> i, found |-> FALSE]

\* variant: a second trailing content-end marker is stripped as well
FindEndStripsTwo(l, start) ==
    LET end == Len(l)
        endToken == At(l, end - 1)
    IN IF endToken = ":" THEN end - 1
       ELSE IF endToken = "'" /\ start # end
            THEN IF start # end - 1 /\ At(l, end - 2) = "'" THEN end - 2 ELSE end - 1
       ELSE end

\* variant: the trailing marker is stripped even when it is the whole content
FindEndNoGuard(l, start) ==
    LET end == Len(l)
        endToken == At(l, end - 1)
    IN IF endToken = ":" \/ endToken = "'" THEN end - 1 ELSE end

FindEnd(l, start) ==
    LET end == Len(l)
        endToken == At(l, end - 1)
    IN IF endToken = ":" THEN end - 1
       ELSE IF endToken = "'" /\ start # end THEN end - 1
       ELSE end

\* variant: the position of the space is recorded, not that of the colon
RECURSIVE FindNVPairRecordsSpace(_, _, _, _, _)
FindNVPairRecordsSpace(l, i, end, nvPairNameEnd, foundNVPairMaybe) ==
    IF i >= end THEN nvPairNameEnd
    ELSE IF At(l, i) = ":"
         THEN FindNVPairRecordsSpace(l, i + 1, end, nvPairNameEnd, TRUE)
    ELSE IF foundNVPairMaybe /\ At(l, i) = " "
         THEN FindNVPairRecordsSpace(l, i + 1, end, i, foundNVPairMaybe)
    ELSE IF foundNVPairMaybe
         THEN FindNVPairRecordsSpace(l, i + 1, end, nvPairNameEnd, FALSE)
    ELSE FindNVPairRecordsSpace(l, i + 1, end, nvPairNameEnd, foundNVPairMaybe)

RECURSIVE FindNVPair(_, _, _, _, _)
FindNVPair(l, i, end, nvPairNameEnd, foundNVPairMaybe) ==
    IF i >= end THEN nvPairNameEnd
    ELSE IF At(l, i) = ":" THEN FindNVPair(l, i + 1, end, nvPairNameEnd, TRUE)
    ELSE IF foundNVPairMaybe /\ At(l, i) = " "
         THEN FindNVPair(l, i + 1, end, i - 1, foundNVPairMaybe)
    ELSE IF foundNVPairMaybe THEN FindNVPair(l, i + 1, end, nvPairNameEnd, FALSE)
    ELSE FindNVPair(l, i + 1, end, nvPairNameEnd, foundNVPairMaybe)

Skipped(k) ==
    [kind |-> k, start |-> 0, end |-> 0, nvPairNameEnd |-> Unset,
     foundContentStart |-> FALSE]

Classify(l) ==
    LET i == SkipBlank(l, 0)
    IN IF i = Len(l) THEN Skipped("blank")
       ELSE LET cs == ContentStart(l, i)
            IN IF ~cs.found /\ At(l, i) = "#" THEN Skipped("comment")
               ELSE LET end == FindEnd(l, cs.start)
                        nv == FindNVPair(l, cs.start, end, Unset, FALSE)
                        endToken == At(l, Len(l) - 1)
                    IN [kind |-> IF endToken = ":"
                                 THEN IF cs.start = end /\ ~cs.found
                                      THEN "close" ELSE "open"
                                 ELSE IF nv # Unset THEN "pair" ELSE "leaf",
                        start |-> cs.start, end |-> end, nvPairNameEnd |-> nv,
                        foundContentStart |-> cs.found]

\* the texts a classified line puts in the tree
\* variant: the pair split is applied to open-scope lines too
ScopeNameSplit(l, k) ==
    IF k.nvPairNameEnd # Unset THEN Slice(l, k.start, k.nvPairNameEnd)
    ELSE Slice(l, k.start, k.end)

ScopeName(l, k) == Slice(l, k.start, k.end)

PairName(l, k) == Slice(l, k.start, k.nvPairNameEnd)

PairValue(l, k) == Slice(l, k.nvPairNameEnd + 2, k.end)

LeafName(l, k) == Slice(l, k.start, k.end)

----------------------------------------------------------------------------
(* The tree *)

Root == 1

Config(name) == [name |-> name, value |-> <<>>]

\* variant: the new child is put in front
addValueFront(ns, cid, vid) == [ns EXCEPT ![cid].value = <<vid>> \o @]

\* variant: the new child replaces the children
addValueReplace(ns, cid, vid) == [ns EXCEPT ![cid].value = <<vid>>]

addValue(ns, cid, vid) == [ns EXCEPT ![cid].value = Append(@, vid)]

----------------------------------------------------------------------------
(* Inputs *)

RECURSIVE SeqsUpTo(_, _)
SeqsUpTo(S, n) ==
    IF n = 0 THEN {<<>>}
    ELSE LET shorter == SeqsUpTo(S, n - 1)
         IN shorter \cup {Append(s, x) : s \in {t \in shorter : Len(t) = n - 1}, x \in S}

\* every line over the alphabet, and the same behind a leading tab
AllLines ==
    SeqsUpTo(Alphabet, MaxLen)
    \cup { <<"\t">> \o l : l \in SeqsUpTo(Alphabet, MaxLen - 1) }

TreeLines ==
    { <<>>, <<"#">>, <<"a">>, <<"b">>, <<"a", ":">>, <<":">>,
      <<"a", ":", " ", "b">> }

OptionLists ==
    { <<>>, <<HeightLimit(1)>>, <<SizeLimit(3)>>,
      <<HeightLimit(2), SizeLimit(7)>>, <<SizeLimit(3), HeightLimit(0)>> }

LineOptionLists == { <<>>, <<HeightLimit(1)>>, <<SizeLimit(5)>>, <<SizeLimit(0)>> }

Preludes == { <<>>, << <<"a", ":">> >> }

\* every way the reader can stop: after any number of ReadLine results
Truncations(rd) == { SubSeq(rd, 1, k) : k \in 0..Len(rd) }

----------------------------------------------------------------------------
(* The program *)

InitWith(opts, rd) ==
    /\ options \in opts
    /\ content \in rd
    /\ pos = 0
    /\ line = <<>>
    /\ lineno = 0
    /\ size = 0
    /\ heightLimit = Unset
    /\ sizeLimit = Unset
    /\ nodes = <<>>
    /\ stack = <<>>
    /\ c = 0
    /\ err = NoErr
    /\ ret = NoErr
    /\ pc = "new"
    /\ lines = <<>>
    /\ created = <<>>
    /\ first = [nodes |-> <<>>, ret |-> NoErr]
    /\ ioFailed = FALSE

Init ==
    InitWith(OptionLists,
             UNION { Truncations(Reads(ls)) : ls \in SeqsUpTo(TreeLines, MaxLines) })

InitLine ==
    InitWith(LineOptionLists,
             UNION { Truncations(Reads(p \o <<l>>)) : p \in Preludes, l \in AllLines })

NewParser ==
    /\ pc = "new"
    /\ LET r == ApplyOptions(options, [heightLimit |-> Unset, sizeLimit |-> Unset])
       IN /\ heightLimit' = r.p.heightLimit
          /\ sizeLimit' = r.p.sizeLimit
          /\ ret' = r.err
          /\ pc' = IF r.err = NoErr THEN "ready" ELSE "failed"
    /\ UNCHANGED <<first, ioFailed, options, content, pos, line, lineno, size, nodes, stack,
                   c, err, lines, created>>

\* variant: the root is left without its name
ParseConfigUnnamedRoot ==
    /\ pc = "ready"
    /\ nodes' = <<Config(<<>>)>>
    /\ created' = <<0>>
    /\ stack' = <<Root>>
    /\ c' = Root
    /\ pc' = "read"
    /\ UNCHANGED <<first, ioFailed, options, content, pos, line, lineno, size, heightLimit,
                   sizeLimit, err, ret, lines>>

ParseConfig ==
    /\ pc = "ready"
    /\ nodes' = <<Config(<<"__root__">>)>>
    /\ created' = <<0>>
    /\ stack' = <<Root>>
    /\ c' = Root
    /\ pc' = "read"
    /\ UNCHANGED <<first, ioFailed, options, content, pos, line, lineno, size, heightLimit,
                   sizeLimit, err, ret, lines>>

\* once content is used up ReadLine fails, with io.EOF or with another error
NextLine ==
    /\ pc = "read"
    /\ \E final \in {"EOF", "io"} :
       LET r == nextLine(content, final, pos, size, sizeLimit, lineno)
       IN /\ line' = r.line
          /\ pos' = r.pos
          /\ size' = r.size
          /\ lineno' = r.lineno
          /\ err' = r.err
          /\ lines' = IF r.err = NoErr THEN Append(lines, r.line) ELSE lines
          /\ ioFailed' = (ioFailed \/ r.err = IOErr)
          /\ pc' = IF r.err = NoErr THEN "body" ELSE "exit"
    /\ UNCHANGED <<first, options, content, heightLimit, sizeLimit, nodes, stack,
                   c, ret, created>>

Blank ==
    /\ pc = "body"
    /\ Classify(line).kind = "blank"
    /\ pc' = "read"
    /\ UNCHANGED <<first, ioFailed, options, content, pos, line, lineno, size, heightLimit,
                   sizeLimit, nodes, stack, c, err, ret, lines, created>>

Comment ==
    /\ pc = "body"
    /\ Classify(line).kind = "comment"
    /\ pc' = "read"
    /\ UNCHANGED <<first, ioFailed, options, content, pos, line, lineno, size, heightLimit,
                   sizeLimit, nodes, stack, c, err, ret, lines, created>>

\* variant: a terminator met at the root is ignored
CloseScopeKeepsRoot ==
    /\ pc = "body"
    /\ Classify(line).kind = "close"
    /\ stack' = IF Len(stack) = 1 THEN stack ELSE SubSeq(stack, 1, Len(stack) - 1)
    /\ c' = stack'[Len(stack')]
    /\ pc' = "read"
    /\ UNCHANGED <<first, ioFailed, options, content, pos, line, lineno, size, heightLimit,
                   sizeLimit, nodes, err, ret, lines, created>>

CloseScope ==
    /\ pc = "body"
    /\ Classify(line).kind = "close"
    /\ stack' = SubSeq(stack, 1, Len(stack) - 1)
    /\ IF Len(stack') = 0
       THEN pc' = "exit" /\ c' = c
       ELSE pc' = "read" /\ c' = stack'[Len(stack')]
    /\ UNCHANGED <<first, ioFailed, options, content, pos, line, lineno, size, heightLimit,
                   sizeLimit, nodes, err, ret, lines, created>>

\* variant: the parse goes on after the height error
OpenScopeGoesOn ==
    /\ pc = "body"
    /\ LET k == Classify(line)
           id == Len(nodes) + 1
       IN /\ k.kind = "open"
          /\ created' = Append(created, lineno)
          /\ IF SliceOK(line, k.start, k.end)
             THEN /\ nodes' = addValue(Append(nodes, Config(ScopeName(line, k))), c, id)
                  /\ stack' = Append(stack, id)
                  /\ c' = id
                  /\ err' = checkHeight(Len(stack') - 1, heightLimit, lineno)
                  /\ pc' = "read"
             ELSE /\ nodes' = addValue(Append(nodes, Config(<<>>)), c, id)
                  /\ pc' = "panic"
                  /\ UNCHANGED <<stack, c, err>>
    /\ UNCHANGED <<first, ioFailed, options, content, pos, line, lineno, size, heightLimit,
                   sizeLimit, ret, lines>>

\* variant: the current node is pushed, not the new one
OpenScopePushesParent ==
    /\ pc = "body"
    /\ LET k == Classify(line)
           id == Len(nodes) + 1
       IN /\ k.kind = "open"
          /\ created' = Append(created, lineno)
          /\ IF SliceOK(line, k.start, k.end)
             THEN /\ nodes' = addValue(Append(nodes, Config(ScopeName(line, k))), c, id)
                  /\ stack' = Append(stack, c)
                  /\ c' = id
                  /\ err' = checkHeight(Len(stack') - 1, heightLimit, lineno)
                  /\ pc' = IF err' = NoErr THEN "read" ELSE "exit"
             ELSE /\ nodes' = addValue(Append(nodes, Config(<<>>)), c, id)
                  /\ pc' = "panic"
                  /\ UNCHANGED <<stack, c, err>>
    /\ UNCHANGED <<first, ioFailed, options, content, pos, line, lineno, size, heightLimit,
                   sizeLimit, ret, lines>>

OpenScope ==
    /\ pc = "body"
    /\ LET k == Classify(line)
           id == Len(nodes) + 1
       IN /\ k.kind = "open"
          /\ created' = Append(created, lineno)
          /\ IF SliceOK(line, k.start, k.end)
             THEN /\ nodes' = addValue(Append(nodes, Config(ScopeName(line, k))), c, id)
                  /\ stack' = Append(stack, id)
                  /\ c' = id
                  /\ err' = checkHeight(Len(stack') - 1, heightLimit, lineno)
                  /\ pc' = IF err' = NoErr THEN "read" ELSE "exit"
             ELSE /\ nodes' = addValue(Append(nodes, Config(<<>>)), c, id)
                  /\ pc' = "panic"
                  /\ UNCHANGED <<stack, c, err>>
    /\ UNCHANGED <<first, ioFailed, options, content, pos, line, lineno, size, heightLimit,
                   sizeLimit, ret, lines>>

Pair ==
    /\ pc = "body"
    /\ LET k == Classify(line)
           id == Len(nodes) + 1
       IN /\ k.kind = "pair"
          /\ IF SliceOK(line, k.start, k.nvPairNameEnd)
                /\ SliceOK(line, k.nvPairNameEnd + 2, k.end)
             THEN /\ nodes' =
                       addValue(
                         addValue(
                           nodes \o <<Config(PairName(line, k)), Config(PairValue(line, k))>>,
                           id, id + 1),
                         c, id)
                  /\ created' = created \o <<lineno, lineno>>
                  /\ pc' = "read"
             ELSE /\ pc' = "panic"
                  /\ UNCHANGED <<nodes, created>>
    /\ UNCHANGED <<first, ioFailed, options, content, pos, line, lineno, size, heightLimit,
                   sizeLimit, stack, c, err, ret, lines>>

Leaf ==
    /\ pc = "body"
    /\ LET k == Classify(line)
           id == Len(nodes) + 1
       IN /\ k.kind = "leaf"
          /\ IF SliceOK(line, k.start, k.end)
             THEN /\ nodes' = addValue(Append(nodes, Config(LeafName(line, k))), c, id)
                  /\ created' = Append(created, lineno)
                  /\ pc' = "read"
             ELSE /\ pc' = "panic"
                  /\ UNCHANGED <<nodes, created>>
    /\ UNCHANGED <<first, ioFailed, options, content, pos, line, lineno, size, heightLimit,
                   sizeLimit, stack, c, err, ret, lines>>

\* variant: open scopes left at the end of input are not reported
ReturnIgnoresOpenScopes ==
    /\ pc = "exit"
    /\ ret' = IF Len(stack) = 0
              THEN ConfigError(TooManyMsg, Unset, lineno)
              ELSE IF err # EOFErr THEN err ELSE NoErr
    /\ pc' = "done"
    /\ UNCHANGED <<first, ioFailed, options, content, pos, line, lineno, size, heightLimit,
                   sizeLimit, nodes, stack, c, err, lines, created>>

\* the end of iterParse and the return of ParseConfig
Return ==
    /\ pc = "exit"
    /\ ret' = IF err = EOFErr /\ Len(stack) > 1
              THEN ConfigError(UnterminatedMsg, Unset, lineno)
              ELSE IF Len(stack) = 0
                   THEN ConfigError(TooManyMsg, Unset, lineno)
                   ELSE IF err # EOFErr THEN err ELSE NoErr
    /\ pc' = "done"
    /\ UNCHANGED <<first, ioFailed, options, content, pos, line, lineno, size, heightLimit,
                   sizeLimit, nodes, stack, c, err, lines, created>>

Next ==
    \/ NewParser
    \/ ParseConfig
    \/ NextLine
    \/ Blank
    \/ Comment
    \/ CloseScope
    \/ OpenScope
    \/ Pair
    \/ Leaf
    \/ Return

Spec == Init /\ [][Next]_vars

SpecLine == InitLine /\ [][Next]_vars

----------------------------------------------------------------------------
(* The recursive variant, run on the same input after the iterative one *)

\* variant: the recursive check is the iterative one
checkHeightRecAbove(height, hl, ln) ==
    IF hl # Unset /\ height > hl THEN ConfigError(HeightMsg, hl, ln) ELSE NoErr

\* checkHeight of the recursive variant: reaching the limit is an error
checkHeightRec(height, hl, ln) ==
    IF hl # Unset /\ height >= hl THEN ConfigError(HeightMsg, hl, ln) ELSE NoErr

RecLines ==
    { <<>>, <<"#">>, <<"a">>, <<"a", ":">>, <<":">>, <<"a", ":", " ", "b">> }

RecOptionLists ==
    { <<>>, <<HeightLimit(1)>>, <<HeightLimit(2)>>, <<SizeLimit(3)>> }

\* the options of the recursive parser: every height limit one higher
OneHigher(opts) ==
    [i \in 1..Len(opts) |->
        IF opts[i].opt = "height" THEN HeightLimit(opts[i].limit + 1) ELSE opts[i]]

InitRec ==
    InitWith(RecOptionLists, { Reads(ls) : ls \in SeqsUpTo(RecLines, MaxRecLines) })

\* the result of the iterative parse is kept, and a recursive parser is made
\* for the same input
Again ==
    /\ pc = "done"
    /\ first' = [nodes |-> nodes, ret |-> ret]
    /\ options' = OneHigher(options)
    /\ LET r == ApplyOptions(options', [heightLimit |-> Unset, sizeLimit |-> Unset])
       IN /\ heightLimit' = r.p.heightLimit
          /\ sizeLimit' = r.p.sizeLimit
          /\ ret' = r.err
          /\ pc' = IF r.err = NoErr THEN "rready" ELSE "failed"
    /\ pos' = 0
    /\ line' = <<>>
    /\ lineno' = 0
    /\ size' = 0
    /\ nodes' = <<>>
    /\ stack' = <<>>
    /\ c' = 0
    /\ err' = NoErr
    /\ lines' = <<>>
    /\ created' = <<>>
    /\ UNCHANGED <<content, ioFailed>>

\* ParseConfig up to the first line of recursiveParse(root, 0); stack holds
\* the node of every recursiveParse in progress, so height = Len(stack) - 1
RParseConfig ==
    /\ pc = "rready"
    /\ nodes' = <<Config(<<"__root__">>)>>
    /\ created' = <<0>>
    /\ stack' = <<Root>>
    /\ c' = Root
    /\ err' = checkHeightRec(0, heightLimit, lineno)
    /\ pc' = IF err' = NoErr THEN "rread" ELSE "rret"
    /\ UNCHANGED <<first, ioFailed, options, content, pos, line, lineno, size,
                   heightLimit, sizeLimit, ret, lines>>

\* the loop head: only io.EOF ends the loop, any other result enters the body
RNextLine ==
    /\ pc = "rread"
    /\ \E final \in {"EOF", "io"} :
       LET r == nextLine(content, final, pos, size, sizeLimit, lineno)
       IN /\ line' = r.line
          /\ pos' = r.pos
          /\ size' = r.size
          /\ lineno' = r.lineno
          /\ lines' = IF r.err = NoErr THEN Append(lines, r.line) ELSE lines
          /\ ioFailed' = (ioFailed \/ r.err = IOErr)
          /\ IF r.err = EOFErr
             THEN /\ err' = IF Len(stack) - 1 > 0
                            THEN ConfigError(UnterminatedMsg, Unset, r.lineno)
                            ELSE EOFErr
                  /\ pc' = "rret"
             ELSE /\ err' = r.err
                  /\ pc' = "rbody"
    /\ UNCHANGED <<first, options, content, heightLimit, sizeLimit, nodes, stack,
                   c, ret, created>>

RBlank ==
    /\ pc = "rbody"
    /\ Classify(line).kind = "blank"
    /\ pc' = "rread"
    /\ UNCHANGED <<first, ioFailed, options, content, pos, line, lineno, size,
                   heightLimit, sizeLimit, nodes, stack, c, err, ret, lines, created>>

RComment ==
    /\ pc = "rbody"
    /\ Classify(line).kind = "comment"
    /\ pc' = "rread"
    /\ UNCHANGED <<first, ioFailed, options, content, pos, line, lineno, size,
                   heightLimit, sizeLimit, nodes, stack, c, err, ret, lines, created>>

\* return nil
RCloseScope ==
    /\ pc = "rbody"
    /\ Classify(line).kind = "close"
    /\ err' = NoErr
    /\ pc' = "rret"
    /\ UNCHANGED <<first, ioFailed, options, content, pos, line, lineno, size,
                   heightLimit, sizeLimit, nodes, stack, c, ret, lines, created>>

\* the node is attached and named, then recursiveParse(newConf, height + 1)
\* is entered
ROpenScope ==
    /\ pc = "rbody"
    /\ LET k == Classify(line)
           id == Len(nodes) + 1
       IN /\ k.kind = "open"
          /\ created' = Append(created, lineno)
          /\ IF SliceOK(line, k.start, k.end)
             THEN /\ nodes' = addValue(Append(nodes, Config(ScopeName(line, k))), c, id)
                  /\ stack' = Append(stack, id)
                  /\ c' = id
                  /\ err' = checkHeightRec(Len(stack') - 1, heightLimit, lineno)
                  /\ pc' = IF err' = NoErr THEN "rread" ELSE "rret"
             ELSE /\ nodes' = addValue(Append(nodes, Config(<<>>)), c, id)
                  /\ pc' = "panic"
                  /\ UNCHANGED <<stack, c, err>>
    /\ UNCHANGED <<first, ioFailed, options, content, pos, line, lineno, size,
                   heightLimit, sizeLimit, ret, lines>>

RPair ==
    /\ pc = "rbody"
    /\ LET k == Classify(line)
           id == Len(nodes) + 1
       IN /\ k.kind = "pair"
          /\ IF SliceOK(line, k.start, k.nvPairNameEnd)
                /\ SliceOK(line, k.nvPairNameEnd + 2, k.end)
             THEN /\ nodes' =
                       addValue(
                         addValue(
                           nodes \o <<Config(PairName(line, k)), Config(PairValue(line, k))>>,
                           id, id + 1),
                         c, id)
                  /\ created' = created \o <<lineno, lineno>>
                  /\ pc' = "rread"
             ELSE /\ pc' = "panic"
                  /\ UNCHANGED <<nodes, created>>
    /\ UNCHANGED <<first, ioFailed, options, content, pos, line, lineno, size,
                   heightLimit, sizeLimit, stack, c, err, ret, lines>>

RLeaf ==
    /\ pc = "rbody"
    /\ LET k == Classify(line)
           id == Len(nodes) + 1
       IN /\ k.kind = "leaf"
          /\ IF SliceOK(line, k.start, k.end)
             THEN /\ nodes' = addValue(Append(nodes, Config(LeafName(line, k))), c, id)
                  /\ created' = Append(created, lineno)
                  /\ pc' = "rread"
             ELSE /\ pc' = "panic"
                  /\ UNCHANGED <<nodes, created>>
    /\ UNCHANGED <<first, ioFailed, options, content, pos, line, lineno, size,
                   heightLimit, sizeLimit, stack, c, err, ret, lines>>

\* a nested recursiveParse returns to the one that called it, which goes on
\* with its loop after nil and returns the error otherwise
RReturn ==
    /\ pc = "rret"
    /\ Len(stack) > 1
    /\ stack' = SubSeq(stack, 1, Len(stack) - 1)
    /\ c' = stack'[Len(stack')]
    /\ pc' = IF err = NoErr THEN "rread" ELSE "rret"
    /\ UNCHANGED <<first, ioFailed, options, content, pos, line, lineno, size,
                   heightLimit, sizeLimit, nodes, err, ret, lines, created>>

\* recursiveParse(root, 0) returns to ParseConfig
RFinish ==
    /\ pc = "rret"
    /\ Len(stack) = 1
    /\ ret' = IF err = NoErr
              THEN ConfigError(TooManyMsg, Unset, lineno)
              ELSE IF err # EOFErr THEN err ELSE NoErr
    /\ pc' = "rdone"
    /\ UNCHANGED <<first, ioFailed, options, content, pos, line, lineno, size,
                   heightLimit, sizeLimit, nodes, stack, c, err, lines, created>>

NextRec ==
    \/ Next
    \/ Again
    \/ RParseConfig
    \/ RNextLine
    \/ RBlank
    \/ RComment
    \/ RCloseScope
    \/ ROpenScope
    \/ RPair
    \/ RLeaf
    \/ RReturn
    \/ RFinish

SpecRec == InitRec /\ [][NextRec]_vars

----------------------------------------------------------------------------
(* The format, as the specification words it.  These definitions are the   *)
(* yardstick the parser is measured against; they share nothing with the   *)
(* classification operators above.                                         *)

Min(S) == CHOOSE x \in S : \A y \in S : x <= y

Max(S) == CHOOSE x \in S : \A y \in S : x >= y

RefFirst(l) ==
    LET S == {i \in 0..(Len(l) - 1) : At(l, i) # " " /\ At(l, i) # "\t"}
    IN IF S = {} THEN Len(l) ELSE Min(S)

RefBlank(l) == RefFirst(l) = Len(l)

RefEscaped(l) == ~RefBlank(l) /\ At(l, RefFirst(l)) = "'"

RefComment(l) == ~RefBlank(l) /\ At(l, RefFirst(l)) = "#"

RefLast(l) == IF Len(l) = 0 THEN "" ELSE At(l, Len(l) - 1)

RefStart(l) == IF RefEscaped(l) THEN RefFirst(l) + 1 ELSE RefFirst(l)

RefEnd(l) ==
    IF RefLast(l) = ":" THEN Len(l) - 1
    ELSE IF RefLast(l) = "'" /\ RefStart(l) # Len(l) THEN Len(l) - 1
    ELSE Len(l)

\* the positions of a colon immediately followed by a space within the content
RefSplits(l) ==
    {k \in RefStart(l)..(RefEnd(l) - 2) : At(l, k) = ":" /\ At(l, k + 1) = " "}

\* optional spaces and tabs, then a single ':'
RefTerminator(l) == RefLast(l) = ":" /\ RefFirst(l) = Len(l) - 1

RefKind(l) ==
    IF RefBlank(l) THEN "blank"
    ELSE IF RefComment(l) THEN "comment"
    ELSE IF RefLast(l) = ":" THEN IF RefTerminator(l) THEN "close" ELSE "open"
    ELSE IF RefSplits(l) # {} THEN "pair"
    ELSE "leaf"

RECURSIVE RefDepth(_)
RefDepth(ls) ==
    IF ls = <<>> THEN 0
    ELSE LET k == RefKind(ls[Len(ls)])
         IN RefDepth(SubSeq(ls, 1, Len(ls) - 1))
            + (IF k = "open" THEN 1 ELSE IF k = "close" THEN 0 - 1 ELSE 0)

\* the loop body has just run on p.line
JustApplied ==
    /\ lineno >= 1
    /\ \/ pc = "read"
       \/ pc = "panic"
       \/ pc = "exit" /\ (err = NoErr \/ err.context = HeightMsg)

NewNodes == {n \in 1..Len(nodes) : created[n] = lineno}

Top == stack[Len(stack)]

LastChild(p, n) ==
    Len(nodes[p].value) > 0 /\ nodes[p].value[Len(nodes[p].value)] = n

OnStack(n) == \E i \in 1..Len(stack) : stack[i] = n

\* the line left the stack as the lines before it had left it
StackUntouched ==
    /\ Len(stack) = 1 + RefDepth(SubSeq(lines, 1, lineno - 1))
    /\ c = Top
    /\ \A n \in NewNodes : ~OnStack(n)

\* the line made one childless node named name, the last child of the top
OneLeaf(name) ==
    \E n \in 1..Len(nodes) :
        /\ NewNodes = {n}
        /\ nodes[n] = [name |-> name, value |-> <<>>]
        /\ LastChild(Top, n)

\* the line made a name node with one childless value child
OnePair(name, value) ==
    \E n \in 1..Len(nodes) :
        /\ NewNodes = {n, n + 1}
        /\ nodes[n] = [name |-> name, value |-> <<n + 1>>]
        /\ nodes[n + 1] = [name |-> value, value |-> <<>>]
        /\ LastChild(Top, n)

----------------------------------------------------------------------------
(* C1 as claimed: a line that is not blank, not a comment and does not end in ':' is  *)
(* split at the LAST colon-space of its content: with the colon at k it is *)
(* the pair content[start:k] / content[k+2:end]; without one it is a leaf. *)
C1_SplitAtLastColonSpace ==
    (JustApplied /\ RefKind(line) \in {"pair", "leaf"}) =>
        /\ pc # "panic"
        /\ IF RefSplits(line) # {}
           THEN LET k == Max(RefSplits(line))
                IN OnePair(Slice(line, RefStart(line), k),
                           Slice(line, k + 2, RefEnd(line)))
           ELSE OneLeaf(Slice(line, RefStart(line), RefEnd(line)))

\* the line is ' + s + ', and s
Wrapped(l) == Len(l) >= 2 /\ At(l, 0) = "'" /\ RefLast(l) = "'"

Inner(l) == Slice(l, 1, Len(l) - 1)

HasColonSpace(s) == \E i \in 1..(Len(s) - 1) : s[i] = ":" /\ s[i + 1] = " "

(* C2 as claimed: every line ' + s + ' becomes exactly one childless node  *)
(* named s, appended to the current scope, the stack unchanged.            *)
C2_WrappedLineIsLiteral ==
    (JustApplied /\ Wrapped(line)) =>
        pc # "panic" /\ OneLeaf(Inner(line)) /\ StackUntouched

(* C2 amended: every line ' + s + ' whose s holds no colon immediately     *)
(* followed by a space becomes exactly one childless node named s,         *)
(* appended to the current scope, the stack unchanged.                     *)
C2_WrappedLineWithoutColonSpaceIsLiteral ==
    (JustApplied /\ Wrapped(line) /\ ~HasColonSpace(Inner(line))) =>
        pc # "panic" /\ OneLeaf(Inner(line)) /\ StackUntouched

C2_Witness ==
    /\ JustApplied /\ Wrapped(line) /\ ~HasColonSpace(Inner(line))
    /\ Len(line) = 4
    /\ At(line, 1) \in {" ", "#", ":", "'"}
    /\ At(line, 2) = ":"
    /\ Len(stack) = 2

(* C3: a non-blank, non-comment line ending in ':' that is not a pure      *)
(* terminator opens a scope named by the whole content between the content *)
(* start and the stripped ':'; no pair split is applied to it.             *)
C3_OpenScopeNamedByWholeContent ==
    (JustApplied /\ RefKind(line) = "open") =>
        /\ pc # "panic"
        /\ \E n \in 1..Len(nodes) :
              /\ NewNodes = {n}
              /\ nodes[n] = [name |-> Slice(line, RefStart(line), Len(line) - 1),
                             value |-> <<>>]
              /\ Len(stack) = 2 + RefDepth(SubSeq(lines, 1, lineno - 1))
              /\ Top = n
              /\ c = n
              /\ LastChild(stack[Len(stack) - 1], n)

C3_Witness ==
    /\ JustApplied /\ RefKind(line) = "open"
    /\ RefSplits(line) # {}
    /\ pc = "read"

\* the line's nodes carry the text of the line from lo to hi
TextSpans(lo, hi) ==
    \/ \E n \in 1..Len(nodes) :
          NewNodes = {n} /\ nodes[n].name = Slice(line, lo, hi)
    \/ \E n \in 1..Len(nodes), k \in lo..(hi - 2) :
          /\ NewNodes = {n, n + 1}
          /\ nodes[n].name = Slice(line, lo, k)
          /\ nodes[n + 1].name = Slice(line, k + 2, hi)

(* C9: a line whose first non-blank character is ' is neither a comment    *)
(* nor a close-scope line and its text starts right after that marker; a   *)
(* line with other content that ends in ' neither opens nor closes a scope *)
(* and loses exactly that one trailing marker.                             *)
C9_EscapeRules ==
    /\ (JustApplied /\ RefEscaped(line)) =>
          /\ pc # "panic"
          /\ NewNodes # {}
          /\ Len(stack) >= 1 + RefDepth(SubSeq(lines, 1, lineno - 1))
          /\ TextSpans(RefFirst(line) + 1, RefEnd(line))
    /\ (JustApplied /\ RefLast(line) = "'" /\ RefStart(line) # Len(line)) =>
          /\ pc # "panic"
          /\ StackUntouched
          /\ IF RefComment(line) THEN NewNodes = {}
             ELSE TextSpans(RefStart(line), Len(line) - 1)

C9_Witness ==
    /\ JustApplied
    /\ line = <<"'", "#", ":", "'">>
    /\ OneLeaf(<<"#", ":">>)

\* optional spaces and tabs, then a single '
BareMarker(l) == RefLast(l) = "'" /\ RefFirst(l) = Len(l) - 1

(* C10: a line of optional spaces and tabs followed by a single ', and the *)
(* line '', each append exactly one childless node with the empty name to  *)
(* the current scope.                                                      *)

C10_BareMarkerIsEmptyLeaf ==
    (JustApplied /\ (BareMarker(line) \/ line = <<"'", "'">>)) =>
        pc # "panic" /\ OneLeaf(<<>>) /\ StackUntouched

C10_Witness ==
    /\ JustApplied
    /\ BareMarker(line)
    /\ Len(line) = 3
    /\ At(line, 0) = "\t"
    /\ OneLeaf(<<>>)
    /\ Len(stack) = 2

----------------------------------------------------------------------------
(* Yardsticks for whole inputs *)

\* iterParse has started
Parsing == pc \in {"read", "body", "exit", "done", "panic"}

\* the last thing the loop did was to run its body on line number lineno
BodyRanLast ==
    /\ lineno >= 1
    /\ pc \in {"read", "exit", "done", "panic"}
    /\ (err = NoErr \/ err.context = HeightMsg)

DepthAfter(j) == RefDepth(SubSeq(lines, 1, j))

MakesNode(j) == RefKind(lines[j]) \in {"open", "pair", "leaf"}

\* the node made by line j (a pair's name node, not its value)
NodeOf(j) == Min({n \in 1..Len(nodes) : created[n] = j})

IsScope(n) == n = Root \/ (created[n] >= 1 /\ RefKind(lines[created[n]]) = "open"
                            /\ n = NodeOf(created[n]))

\* the close-scope line matching the open-scope line i (the end of input for
\* the root, whose line is 0)
Match(i) ==
    LET S == {j \in (i + 1)..Len(lines) :
                RefKind(lines[j]) = "close" /\ DepthAfter(j) = DepthAfter(i) - 1}
    IN IF S = {} THEN Len(lines) + 1 ELSE Min(S)

Members(i) ==
    {j \in (i + 1)..(Match(i) - 1) : MakesNode(j) /\ DepthAfter(j - 1) = DepthAfter(i)}

RECURSIVE InOrder(_)
InOrder(S) == IF S = {} THEN <<>> ELSE <<Min(S)>> \o InOrder(S \ {Min(S)})

NodesOf(js) == [x \in 1..Len(js) |-> NodeOf(js[x])]

RECURSIVE SumLen(_)
SumLen(ls) == IF ls = <<>> THEN 0 ELSE Len(Head(ls)) + SumLen(Tail(ls))

\* the bytes the reader has handed out
BytesRead == SumLen([i \in 1..pos |-> content[i].bytes])

(* C4: after a successful parse the children of every scope are the nodes  *)
(* of the node-making lines between its open line and the matching close   *)
(* line at that level, one per line, in input order, duplicates kept.      *)
C4_ChildrenAreTheLinesOfTheScope ==
    (pc = "done" /\ ret = NoErr) =>
        \A n \in 1..Len(nodes) :
            IsScope(n) => nodes[n].value = NodesOf(InOrder(Members(created[n])))

C4_Witness ==
    /\ pc = "done" /\ ret = NoErr
    /\ \E n \in 2..Len(nodes) :
          /\ IsScope(n)
          /\ Len(nodes[n].value) = 2
          /\ nodes[nodes[n].value[1]].name = nodes[nodes[n].value[2]].name

(* C5: a close-scope line met with only the root on the stack empties the  *)
(* stack and ends the parse: ParseConfig returns 'Too many compound        *)
(* terminators' with that line's number and the tree the earlier lines     *)
(* built, and the stack is never empty for any other reason.               *)
C5_ExtraTerminatorIsReported ==
    /\ (BodyRanLast /\ RefKind(lines[lineno]) = "close" /\ DepthAfter(lineno - 1) = 0) =>
          /\ stack = <<>>
          /\ pc \in {"exit", "done"}
    /\ (Parsing /\ stack = <<>>) =>
          /\ BodyRanLast
          /\ RefKind(lines[lineno]) = "close"
          /\ lineno = Len(lines)
          /\ pc \in {"exit", "done"}
          /\ \A n \in 1..Len(nodes) : created[n] < lineno
          /\ pc = "done" => ret = ConfigError(TooManyMsg, Unset, lineno)

C5_Witness ==
    /\ pc = "done"
    /\ ret = ConfigError(TooManyMsg, Unset, 3)
    /\ Len(nodes) = 3
    /\ pos < Len(content)

(* C6: at end of input with no earlier error ParseConfig returns no error  *)
(* when only the root is on the stack, and otherwise 'Unterminated         *)
(* compound group' with the number of the last line read.                  *)
C6_EndOfInput ==
    (pc = "done" /\ err = EOFErr) =>
        /\ Len(stack) >= 1
        /\ ret = IF Len(stack) = 1 THEN NoErr
                 ELSE ConfigError(UnterminatedMsg, Unset, Len(lines))
        /\ nodes[Root].name = <<"__root__">>

C6_Witness ==
    /\ pc = "done" /\ err = EOFErr
    /\ Len(stack) = 3
    /\ ret = ConfigError(UnterminatedMsg, Unset, 4)

(* C7: with a height limit N the depth-exceeded error is reported exactly  *)
(* when an open-scope line brings the depth (stack size - 1) to N + 1, at  *)
(* that line; depth N is accepted.                                         *)
C7_HeightLimit ==
    Parsing =>
        /\ heightLimit # Unset => Len(stack) - 1 <= heightLimit + 1
        /\ err.context = HeightMsg
              <=> (heightLimit # Unset /\ Len(stack) - 1 = heightLimit + 1)
        /\ err.context = HeightMsg =>
              /\ err = ConfigError(HeightMsg, heightLimit, lineno)
              /\ lineno = Len(lines)
              /\ RefKind(lines[lineno]) = "open"
              /\ pc \in {"exit", "done"}
        /\ pc = "done" => (ret.context = HeightMsg <=> err.context = HeightMsg)
        /\ (pc = "done" /\ err.context = HeightMsg) => ret = err

C7_Witness ==
    /\ pc = "done" /\ ret = NoErr
    /\ heightLimit = 2
    /\ lines = << <<"a", ":">>, <<"a", ":">>, <<":">>, <<":">> >>

(* C8: with a size limit M the size-exceeded error is reported as soon as  *)
(* the bytes of the lines read reach M, the line that reached M is not     *)
(* applied, and below M there is no size error.                            *)
C8_SizeLimit ==
    Parsing =>
        /\ size = BytesRead
        /\ err.context = SizeMsg <=> (sizeLimit # Unset /\ BytesRead >= sizeLimit)
        /\ sizeLimit # Unset => SumLen(lines) < sizeLimit
        /\ err.context = SizeMsg =>
              /\ err = ConfigError(SizeMsg, sizeLimit, lineno)
              /\ lineno = Len(lines)
              /\ pc \in {"exit", "done"}
              /\ pc = "done" => ret = err

C8_Witness ==
    /\ pc = "done"
    /\ ret.context = SizeMsg
    /\ BytesRead = sizeLimit
    /\ Len(lines) = 2
    /\ Len(nodes) = 2

----------------------------------------------------------------------------
(* Yardsticks for options and for the shape of the tree *)

Invalid(opts) == {i \in 1..Len(opts) : opts[i].limit <= 0}

\* the value of the last option of a kind, Unset when there is none
LastOf(opts, kind) ==
    LET S == {i \in 1..Len(opts) : opts[i].opt = kind}
    IN IF S = {} THEN Unset ELSE opts[Max(S)].limit

Parent(n) ==
    CHOOSE p \in 1..Len(nodes) :
        \E i \in 1..Len(nodes[p].value) : nodes[p].value[i] = n

RECURSIVE NodeDepth(_)
NodeDepth(n) == IF n = Root THEN 0 ELSE 1 + NodeDepth(Parent(n))

IsPrefix(s, t) == Len(s) <= Len(t) /\ SubSeq(t, 1, Len(s)) = s

(* C11: NewParser fails, giving no parser and an error naming the limit,   *)
(* whenever an option carries a value <= 0; otherwise the parser's limits  *)
(* are the supplied values, and without options no limit is ever enforced. *)
C11_NewParserValidatesOptions ==
    pc # "new" =>
        /\ Invalid(options) # {} =>
              /\ pc = "failed"
              /\ ret = ParserOptFuncError(
                          IF options[Min(Invalid(options))].opt = "height"
                          THEN "Height limit must be greater than 0."
                          ELSE "Size limit must be greater than 0.")
        /\ Invalid(options) = {} =>
              /\ pc # "failed"
              /\ heightLimit = LastOf(options, "height")
              /\ sizeLimit = LastOf(options, "size")
        /\ options = <<>> =>
              /\ err.context \notin {HeightMsg, SizeMsg}
              /\ ret.context \notin {HeightMsg, SizeMsg}

C11_Witness ==
    /\ pc = "failed"
    /\ options = <<SizeLimit(3), HeightLimit(0)>>
    /\ ret.context = "Height limit must be greater than 0."

(* C12: whatever the input and the limits, and however the parse ends,     *)
(* ParseConfig returns a root named '__root__'; for empty input the root   *)
(* has no children and there is no error.                                  *)
C12_RootAlwaysReturned ==
    pc = "done" =>
        /\ Len(nodes) >= 1
        /\ nodes[Root].name = <<"__root__">>
        /\ (content = <<>> /\ err = EOFErr) =>
              (nodes = <<Config(<<"__root__">>)>> /\ ret = NoErr)

C12_Witness ==
    /\ pc = "done"
    /\ ret.context = TooManyMsg
    /\ Len(nodes) = 1
    /\ nodes[Root].name = <<"__root__">>

(* C13: the first error (extra terminator, depth, size, I/O failure) ends  *)
(* the parse: the loop is left at once, and from there no line is read,    *)
(* the tree is not touched and ParseConfig returns that very error.        *)
C13_FirstErrorEndsTheParse ==
    /\ [](Parsing /\ (err # NoErr \/ stack = <<>>) => pc \in {"exit", "done"})
    /\ [][pc = "exit" =>
            /\ pc' = "done"
            /\ nodes' = nodes /\ stack' = stack /\ pos' = pos /\ lines' = lines
            /\ stack = <<>> => ret' = ConfigError(TooManyMsg, Unset, lineno)
            /\ (stack # <<>> /\ err # EOFErr) => ret' = err]_vars
    /\ [][pc = "done" => UNCHANGED vars]_vars

C13_Witness ==
    /\ pc = "done"
    /\ ret = ConfigError(HeightMsg, 1, 2)
    /\ pos < Len(content)
    /\ Len(nodes) = 3

(* C14 as claimed: with a height limit N no node of the tree, of any kind, *)
(* is ever at a depth greater than N, the root being at depth 0.           *)
C14_NoNodeBelowTheLimit ==
    (Parsing /\ heightLimit # Unset) =>
        \A n \in 1..Len(nodes) : NodeDepth(n) <= heightLimit

(* C16 as claimed: a depth error and a size error carry the 1-based number *)
(* of the line being consumed when the limit was hit (the open-scope line; *)
(* the line whose bytes reached the size limit) and the limit's value.     *)
C16_LimitErrorsCarryTheLineNumber ==
    Parsing =>
        /\ err.context = HeightMsg =>
              /\ err.limit = heightLimit
              /\ err.line = Len(lines)
              /\ err.line >= 1
              /\ RefKind(lines[err.line]) = "open"
        /\ err.context = SizeMsg =>
              /\ err.limit = sizeLimit
              /\ err.line = Len(lines) + 1

\* the top of the stack got the child id, and no other node changed
OnlyTopGrew(id) ==
    \A n \in 1..Len(nodes) :
        nodes'[n] = IF n = Top THEN [nodes[n] EXCEPT !.value = Append(@, id)]
                               ELSE nodes[n]

(* C17: a line changes the tree at most by appending one new node (with    *)
(* one value child for a pair) to the children of the top of the stack;    *)
(* nodes already there keep their name and children; blank and comment     *)
(* lines leave tree and stack alone, leaf and pair lines leave the stack.  *)
C17_AppendOnly ==
    [][Parsing =>
        /\ Len(nodes') >= Len(nodes)
        /\ \A n \in 1..Len(nodes) :
              /\ nodes'[n].name = nodes[n].name
              /\ IsPrefix(nodes[n].value, nodes'[n].value)
        /\ pc # "body" => nodes' = nodes
        /\ pc = "body" =>
              LET k == RefKind(line)
                  id == Len(nodes) + 1
              IN /\ k \in {"blank", "comment"} => (nodes' = nodes /\ stack' = stack)
                 /\ k = "close" => nodes' = nodes
                 /\ k \in {"leaf", "pair"} => stack' = stack
                 /\ k \in {"open", "leaf"} =>
                       /\ Len(nodes') = id
                       /\ nodes'[id].value = <<>>
                       /\ OnlyTopGrew(id)
                 /\ k = "pair" =>
                       /\ Len(nodes') = id + 1
                       /\ nodes'[id].value = <<id + 1>>
                       /\ nodes'[id + 1].value = <<>>
                       /\ OnlyTopGrew(id)]_vars

C17_Witness ==
    /\ JustApplied
    /\ RefKind(line) = "pair"
    /\ Len(stack) = 2
    /\ Len(nodes[Top].value) = 2
    /\ Len(nodes) = 5

(* C19: whenever a line is about to be classified the stack is not empty,  *)
(* its bottom is the root and each element above is the last child of the  *)
(* one beneath; its size minus 1 is the number of open-scope lines minus   *)
(* the number of close-scope lines so far, before and after each line.     *)
C19_StackDiscipline ==
    /\ pc = "body" =>
          /\ stack # <<>>
          /\ stack[1] = Root
          /\ \A i \in 2..Len(stack) : LastChild(stack[i - 1], stack[i])
          /\ Len(stack) - 1 = DepthAfter(lineno - 1)
    /\ BodyRanLast => Len(stack) - 1 = DepthAfter(lineno)

C19_Witness ==
    /\ pc = "body"
    /\ Len(stack) = 3
    /\ RefKind(line) = "close"
    /\ Len(nodes[stack[2]].value) = 1

(* C20: classification never indexes or slices out of range: for every    *)
(* non-blank, non-comment line 0 <= start <= end <= len(line), and a       *)
(* recorded split point k has start <= k and k + 2 <= end.                 *)
C20_SlicesInRange ==
    /\ pc # "panic"
    /\ pc = "body" =>
          LET k == Classify(line)
          IN k.kind \notin {"blank", "comment"} =>
                /\ 0 <= k.start /\ k.start <= k.end /\ k.end <= Len(line)
                /\ k.nvPairNameEnd # Unset =>
                      (k.start <= k.nvPairNameEnd /\ k.nvPairNameEnd + 2 <= k.end)

C20_Witness ==
    /\ JustApplied
    /\ line = <<"'", ":", " ">>
    /\ OnePair(<<>>, <<>>)

(* C15 as claimed: in the recursive variant a size error or an I/O failure *)
(* of nextLine stops the parse: the line is not classified, nothing more   *)
(* is read, and ParseConfig returns that error.                            *)
C15_RecursiveStopsOnReadError ==
    /\ pc = "rbody" => err = NoErr
    /\ (pc = "rdone" /\ sizeLimit # Unset /\ size >= sizeLimit) =>
          ret.context = SizeMsg

(* C18: without size limit and I/O failure the recursive variant with      *)
(* HeightLimit(N+1) returns the same tree, the same success or failure,    *)
(* the same kind of error and the same error line as the iterative one     *)
(* with HeightLimit(N); without height limit the two return the same.      *)
C18_VariantsDifferByOneOnTheLimit ==
    (pc = "rdone" /\ sizeLimit = Unset /\ ~ioFailed) =>
        /\ nodes = first.nodes
        /\ ret.kind = first.ret.kind
        /\ ret.context = first.ret.context
        /\ ret.line = first.ret.line
        /\ ret.context = HeightMsg =>
              (ret.limit = heightLimit /\ first.ret.limit = heightLimit - 1)
        /\ heightLimit = Unset => ret = first.ret

C18_Witness ==
    /\ pc = "rdone"
    /\ ~ioFailed
    /\ heightLimit = 2
    /\ first.ret = ConfigError(HeightMsg, 1, 2)
    /\ ret = ConfigError(HeightMsg, 2, 2)
    /\ Len(nodes) = 3

====
